---- MODULE Spec2Model ----
(***************************************************************************)
(* sshconf (src/src/config.js): the parser / serializer pair of the SSH    *)
(* client configuration file and the mutation operations built on it.      *)
(*                                                                         *)
(* Text is a sequence of one-character strings.  A JavaScript value is a   *)
(* record tagged by t: "str", "num", "undefined", "null", "obj", "arr".    *)
(* An object is the sequence of its own enumerable properties in the order *)
(* Object.entries reports them.                                            *)
(***************************************************************************)
EXTENDS Integers, Sequences, FiniteSets, TLC

VARIABLES file, call, clip, race

vars == <<file, call, clip, race>>

(***************************************************************************)
(* Bounds of the model.                                                    *)
(***************************************************************************)
\* add and copy are explored while the loaded collection has fewer records
MaxHosts == 2
\* input texts of the parser have at most this many lines
MaxLines == 3

(***************************************************************************)
(* Characters and strings.                                                 *)
(***************************************************************************)
Upper == <<"A","B","C","D","E","F","G","H","I","J","K","L","M",
           "N","O","P","Q","R","S","T","U","V","W","X","Y","Z">>
Lower == <<"a","b","c","d","e","f","g","h","i","j","k","l","m",
           "n","o","p","q","r","s","t","u","v","w","x","y","z">>
Digits == <<"0","1","2","3","4","5","6","7","8","9">>

Range(f) == {f[i] : i \in DOMAIN f}

\* the class \s of a regular expression, and what String.prototype.trim strips
IsSpace(c) == c \in {" ", "\t", "\r", "\n"}
\* the class \w
WordChars == Range(Upper) \cup Range(Lower) \cup Range(Digits) \cup {"_"}
IsWord(c) == c \in WordChars
\* what the class . does not match
IsLineTerminator(c) == c \in {"\n", "\r"}

\* one character under the i flag
toLowerCase(c) == IF \E i \in 1..26 : Upper[i] = c
                  THEN Lower[CHOOSE i \in 1..26 : Upper[i] = c]
                  ELSE c
LowerStr(s) == [i \in 1..Len(s) |-> toLowerCase(s[i])]

Max(S) == CHOOSE m \in S : \A n \in S : n <= m
Min(S) == CHOOSE m \in S : \A n \in S : m <= n

\* String.prototype.trim
trim(s) ==
  LET keep == {i \in 1..Len(s) : ~IsSpace(s[i])}
  IN IF keep = {} THEN <<>> ELSE SubSeq(s, Min(keep), Max(keep))

\* String.prototype.split on one separator character
RECURSIVE split(_, _)
split(s, sep) ==
  LET at == {i \in 1..Len(s) : s[i] = sep}
  IN IF at = {} THEN <<s>>
     ELSE <<SubSeq(s, 1, Min(at) - 1)>> \o split(SubSeq(s, Min(at) + 1, Len(s)), sep)

\* Array.prototype.join
RECURSIVE join(_, _)
join(lines, sep) ==
  IF Len(lines) = 0 THEN <<>>
  ELSE IF Len(lines) = 1 THEN lines[1]
  ELSE lines[1] \o sep \o join(Tail(lines), sep)

startsWith(s, c) == Len(s) >= 1 /\ s[1] = c

\* the text of a non-negative number, as String(n) gives it
RECURSIVE NumToStr(_)
NumToStr(n) == IF n < 10 THEN <<Digits[n + 1]>>
               ELSE NumToStr(n \div 10) \o <<Digits[(n % 10) + 1]>>

DigitVal(c) == (CHOOSE i \in 1..10 : Digits[i] = c) - 1
RECURSIVE StrToNum(_)
StrToNum(s) == IF Len(s) = 0 THEN 0
               ELSE 10 * StrToNum(SubSeq(s, 1, Len(s) - 1)) + DigitVal(s[Len(s)])

(***************************************************************************)
(* Names of the properties the code reads and writes.                      *)
(***************************************************************************)
kName         == <<"n","a","m","e">>
kHostName     == <<"H","o","s","t","N","a","m","e">>
kUser         == <<"U","s","e","r">>
kPort         == <<"P","o","r","t">>
kIdentityFile == <<"I","d","e","n","t","i","t","y","F","i","l","e">>
kHost         == <<"h","o","s","t">>
kUserOpt      == <<"u","s","e","r">>
kPortOpt      == <<"p","o","r","t">>
kIdentity     == <<"i","d","e","n","t","i","t","y">>
kProto        == <<"_","_","p","r","o","t","o","_","_">>

(***************************************************************************)
(* JavaScript values.                                                      *)
(***************************************************************************)
Str(s)    == [t |-> "str", s |-> s]
Num(n)    == [t |-> "num", n |-> n]
Undefined == [t |-> "undefined"]
Null      == [t |-> "null"]
Obj(e)    == [t |-> "obj", e |-> e]
Arr(a)    == [t |-> "arr", a |-> a]
Bool(b)   == [t |-> "bool", b |-> b]

\* ToBoolean, as the conditions `if (x)` and `a || b` apply it
Truthy(v) ==
  CASE v.t = "str" -> Len(v.s) > 0
    [] v.t = "num" -> v.n # 0
    [] v.t = "undefined" -> FALSE
    [] v.t = "null" -> FALSE
    [] v.t = "bool" -> v.b
    [] OTHER -> TRUE

\* a || b
Or(a, b) == IF Truthy(a) THEN a ELSE b

\* a < b for two digit strings without leading zeros
NumLess(a, b) ==
  \/ Len(a) < Len(b)
  \/ /\ Len(a) = Len(b)
     /\ \E i \in 1..Len(a) :
          /\ DigitVal(a[i]) < DigitVal(b[i])
          /\ \A j \in 1..(i - 1) : a[j] = b[j]

\* 2^32 - 1, where the array indices end
MaxIndexStr == <<"4","2","9","4","9","6","7","2","9","5">>

\* a canonical array index: such keys are enumerated first, in ascending order
IsArrayIndex(k) ==
  /\ Len(k) >= 1
  /\ \A i \in 1..Len(k) : k[i] \in Range(Digits)
  /\ (Len(k) = 1 \/ k[1] # "0")
  /\ NumLess(k, MaxIndexStr)

HasKey(o, k) == \E i \in 1..Len(o.e) : o.e[i].k = k

\* o[k], undefined when o has no such own property
ObjGet(o, k) ==
  IF o.t = "obj" /\ HasKey(o, k)
  THEN o.e[CHOOSE i \in 1..Len(o.e) : o.e[i].k = k].v
  ELSE Undefined

InsertAt(s, i, x) == SubSeq(s, 1, i - 1) \o <<x>> \o SubSeq(s, i, Len(s))

\* where a new property k lands in the enumeration order of o
NewKeyPos(o, k) ==
  IF IsArrayIndex(k)
  THEN Len(SelectSeq(o.e, LAMBDA p : IsArrayIndex(p.k) /\ NumLess(p.k, k))) + 1
  ELSE Len(o.e) + 1

\* defining own property k: an existing key keeps its place
ObjDefine(o, k, v) ==
  IF HasKey(o, k)
  THEN Obj([i \in 1..Len(o.e) |-> IF o.e[i].k = k THEN [k |-> k, v |-> v] ELSE o.e[i]])
  ELSE Obj(InsertAt(o.e, NewKeyPos(o, k), [k |-> k, v |-> v]))

\* the assignment o[k] = v on an ordinary object: __proto__ is the inherited
\* accessor, whose setter ignores a value that is neither an object nor null
ObjSet(o, k, v) ==
  IF k = kProto /\ ~HasKey(o, k)
  THEN o
  ELSE ObjDefine(o, k, v)

\* the entries of a record other than its name
Options(h) == SelectSeq(h.e, LAMBDA p : p.k # kName)

(***************************************************************************)
(* The parser.                                                             *)
(***************************************************************************)
\* s matched by /^<head>\s+(.+)$/ where the head takes the first n characters:
\* the lengths the run \s+ can take
SpaceRuns(s, n) ==
  {k \in 1..(Len(s) - n - 1) :
     /\ \A i \in (n + 1)..(n + k) : IsSpace(s[i])
     /\ \A i \in (n + k + 1)..Len(s) : ~IsLineTerminator(s[i])}

\* the group (.+) of such a match: \s+ is greedy
Remainder(s, n) == SubSeq(s, n + Max(SpaceRuns(s, n)) + 1, Len(s))

\* trimmed.match(/^Host\s+(.+)$/i): matched, and hostMatch[1]
hostMatch(trimmed) ==
  IF /\ Len(trimmed) >= 4
     /\ LowerStr(SubSeq(trimmed, 1, 4)) = kHost
     /\ SpaceRuns(trimmed, 4) # {}
  THEN [matched |-> TRUE, g1 |-> Remainder(trimmed, 4)]
  ELSE [matched |-> FALSE, g1 |-> <<>>]

\* the length of the longest prefix of s made of characters of the class \w
WordPrefixLen(s) ==
  Max({n \in 0..Len(s) : \A i \in 1..n : IsWord(s[i])})

\* trimmed.match(/^(\w+)\s+(.+)$/): matched, optMatch[1] and optMatch[2]
optMatch(trimmed) ==
  LET n == WordPrefixLen(trimmed)
  IN IF n >= 1 /\ SpaceRuns(trimmed, n) # {}
     THEN [matched |-> TRUE, g1 |-> SubSeq(trimmed, 1, n), g2 |-> Remainder(trimmed, n)]
     ELSE [matched |-> FALSE, g1 |-> <<>>, g2 |-> <<>>]

\* one turn of the loop over the lines; st holds the locals hosts and current
ParseLine(st, line) ==
  LET trimmed == trim(line)
      hm == hostMatch(trimmed)
      om == optMatch(trimmed)
  IN IF trimmed = <<>> \/ startsWith(trimmed, "#") THEN st
     ELSE IF hm.matched
     THEN [hosts |-> IF st.current # Null THEN Append(st.hosts, st.current) ELSE st.hosts,
           current |-> Obj(<<[k |-> kName, v |-> Str(hm.g1)]>>)]
     ELSE IF st.current # Null /\ om.matched
     THEN [st EXCEPT !.current = ObjSet(st.current, om.g1, Str(om.g2))]
     ELSE st

RECURSIVE ParseLines(_, _, _)
ParseLines(st, lines, i) ==
  IF i > Len(lines) THEN st
  ELSE ParseLines(ParseLine(st, lines[i]), lines, i + 1)

\* parse(content)
parse(content) ==
  IF content = <<>> \/ trim(content) = <<>> THEN <<>>
  ELSE LET st == ParseLines([hosts |-> <<>>, current |-> Null], split(content, "\n"), 1)
       IN IF st.current # Null THEN Append(st.hosts, st.current) ELSE st.hosts

(***************************************************************************)
(* The serializer.                                                         *)
(***************************************************************************)
\* the string a value becomes under the operator +
RECURSIVE ToStr(_)
ToStr(v) ==
  CASE v.t = "str" -> v.s
    [] v.t = "num" -> NumToStr(v.n)
    [] v.t = "undefined" -> <<"u","n","d","e","f","i","n","e","d">>
    [] v.t = "null" -> <<"n","u","l","l">>
    [] v.t = "bool" -> IF v.b THEN <<"t","r","u","e">> ELSE <<"f","a","l","s","e">>
    [] v.t = "obj" -> <<"[","o","b","j","e","c","t"," ","O","b","j","e","c","t","]">>
    [] v.t = "arr" ->
         join([i \in 1..Len(v.a) |->
                 IF v.a[i].t \in {"null", "undefined"} THEN <<>> ELSE ToStr(v.a[i])],
              <<",">>)

\* host.name, for whatever value host is; reading a property of null throws
GetName(host) == ObjGet(host, kName)

\* Object.entries(host): the characters of a string and the elements of an
\* array are its entries, a number has none
Entries(host) ==
  CASE host.t = "obj" -> host.e
    [] host.t = "str" -> [i \in 1..Len(host.s) |-> [k |-> NumToStr(i - 1), v |-> Str(<<host.s[i]>>)]]
    [] host.t = "arr" -> [i \in 1..Len(host.a) |-> [k |-> NumToStr(i - 1), v |-> host.a[i]]]
    [] OTHER -> <<>>

Indent == <<" ", " ", " ", " ">>

\* the lines of one host with '=' between a key and its value
HostLinesEq(host) ==
  LET opts == SelectSeq(Entries(host), LAMBDA p : p.k # kName)
  IN <<<<"H","o","s","t"," ">> \o ToStr(GetName(host))>>
     \o [i \in 1..Len(opts) |-> Indent \o opts[i].k \o <<"=">> \o ToStr(opts[i].v)]
     \o << <<>> >>

\* the lines stringify pushes for one host
HostLines(host) ==
  LET opts == SelectSeq(Entries(host), LAMBDA p : p.k # kName)
  IN <<<<"H","o","s","t"," ">> \o ToStr(GetName(host))>>
     \o [i \in 1..Len(opts) |-> Indent \o opts[i].k \o <<" ">> \o ToStr(opts[i].v)]
     \o << <<>> >>

RECURSIVE AllLines(_, _)
AllLines(hosts, i) ==
  IF i > Len(hosts) THEN <<>> ELSE HostLines(hosts[i]) \o AllLines(hosts, i + 1)

\* stringify throws a TypeError on host.name of a null host
Throws(hosts) == \E i \in 1..Len(hosts) : hosts[i].t \in {"null", "undefined"}

\* stringify(hosts)
stringify(hosts) == join(AllLines(hosts, 1), <<"\n">>)

(***************************************************************************)
(* The structured dialect: JSON.stringify(value, null, 2) and JSON.parse.  *)
(***************************************************************************)
\* the escape JSON.stringify writes for a character of a string
QuoteChar(c) ==
  CASE c = "\"" -> <<"\\", "\"">>
    [] c = "\\" -> <<"\\", "\\">>
    [] c = "\n" -> <<"\\", "n">>
    [] c = "\r" -> <<"\\", "r">>
    [] c = "\t" -> <<"\\", "t">>
    [] OTHER -> <<c>>

RECURSIVE QuoteChars(_, _)
QuoteChars(s, i) == IF i > Len(s) THEN <<>> ELSE QuoteChar(s[i]) \o QuoteChars(s, i + 1)

Quote(s) == <<"\"">> \o QuoteChars(s, 1) \o <<"\"">>

Spaces(n) == [i \in 1..n |-> " "]

\* the text of value v whose members are indented by 2 * (level + 1) spaces
RECURSIVE JSONText(_, _)
JSONText(v, level) ==
  LET inner == <<"\n">> \o Spaces(2 * (level + 1))
      outer == <<"\n">> \o Spaces(2 * level)
  IN CASE v.t = "str" -> Quote(v.s)
       [] v.t = "num" -> NumToStr(v.n)
       [] v.t = "bool" -> ToStr(v)
       [] v.t = "null" -> ToStr(v)
       [] v.t = "arr" ->
            IF Len(v.a) = 0 THEN <<"[", "]">>
            ELSE <<"[">> \o inner
                 \o join([i \in 1..Len(v.a) |-> JSONText(v.a[i], level + 1)], <<",">> \o inner)
                 \o outer \o <<"]">>
       [] v.t = "obj" ->
            IF Len(v.e) = 0 THEN <<"{", "}">>
            ELSE <<"{">> \o inner
                 \o join([i \in 1..Len(v.e) |->
                            Quote(v.e[i].k) \o <<":", " ">> \o JSONText(v.e[i].v, level + 1)],
                         <<",">> \o inner)
                 \o outer \o <<"}">>

\* JSON.stringify(hosts, null, 2)
JSONstringify(hosts) == JSONText(Arr(hosts), 0)

JFail == [ok |-> FALSE, v |-> Undefined, p |-> 0]
JOk(v, p) == [ok |-> TRUE, v |-> v, p |-> p]

\* the first position at or after p that holds no JSON white space
SkipWs(s, p) == Min({i \in p..(Len(s) + 1) : i = Len(s) + 1 \/ ~IsSpace(s[i])})

At(s, p, c) == p <= Len(s) /\ s[p] = c

\* the character an escape stands for
Unescape(c) ==
  CASE c = "n" -> "\n"
    [] c = "r" -> "\r"
    [] c = "t" -> "\t"
    [] OTHER -> c

\* the characters of a string literal from p up to its closing quote
RECURSIVE JChars(_, _, _)
JChars(s, p, acc) ==
  IF p > Len(s) THEN JFail
  ELSE IF s[p] = "\"" THEN JOk(acc, p + 1)
  ELSE IF s[p] = "\\"
  THEN IF p + 1 <= Len(s) /\ s[p + 1] \in {"\"", "\\", "/", "n", "r", "t"}
       THEN JChars(s, p + 2, Append(acc, Unescape(s[p + 1])))
       ELSE JFail
  ELSE IF s[p] \in {"\n", "\r", "\t"} THEN JFail
  ELSE JChars(s, p + 1, Append(acc, s[p]))

JLiteral(s, p, word, v) ==
  IF p + Len(word) - 1 <= Len(s) /\ SubSeq(s, p, p + Len(word) - 1) = word
  THEN JOk(v, p + Len(word))
  ELSE JFail

\* an unsigned integer literal: a leading zero stands alone
JNumber(s, p) ==
  LET n == Max({k \in 0..(Len(s) - p + 1) : \A i \in p..(p + k - 1) : s[i] \in Range(Digits)})
  IN IF s[p] = "0" THEN JOk(Num(0), p + 1)
     ELSE JOk(Num(StrToNum(SubSeq(s, p, p + n - 1))), p + n)

RECURSIVE JValue(_, _)
RECURSIVE JElements(_, _, _)
RECURSIVE JMembers(_, _, _)

JValue(s, p0) ==
  LET p == SkipWs(s, p0)
  IN IF p > Len(s) THEN JFail
     ELSE CASE s[p] = "\"" ->
                 LET r == JChars(s, p + 1, <<>>)
                 IN IF r.ok THEN JOk(Str(r.v), r.p) ELSE JFail
            [] s[p] = "[" ->
                 IF At(s, SkipWs(s, p + 1), "]") THEN JOk(Arr(<<>>), SkipWs(s, p + 1) + 1)
                 ELSE JElements(s, p + 1, <<>>)
            [] s[p] = "{" ->
                 IF At(s, SkipWs(s, p + 1), "}") THEN JOk(Obj(<<>>), SkipWs(s, p + 1) + 1)
                 ELSE JMembers(s, p + 1, Obj(<<>>))
            [] s[p] = "n" -> JLiteral(s, p, <<"n","u","l","l">>, Null)
            [] s[p] = "t" -> JLiteral(s, p, <<"t","r","u","e">>, Bool(TRUE))
            [] s[p] = "f" -> JLiteral(s, p, <<"f","a","l","s","e">>, Bool(FALSE))
            [] s[p] \in Range(Digits) -> JNumber(s, p)
            [] OTHER -> JFail

JElements(s, p, acc) ==
  LET r == JValue(s, p)
      q == SkipWs(s, r.p)
  IN IF ~r.ok THEN JFail
     ELSE IF At(s, q, ",") THEN JElements(s, q + 1, Append(acc, r.v))
     ELSE IF At(s, q, "]") THEN JOk(Arr(Append(acc, r.v)), q + 1)
     ELSE JFail

JMembers(s, p, obj) ==
  LET q == SkipWs(s, p)
      key == IF At(s, q, "\"") THEN JChars(s, q + 1, <<>>) ELSE JFail
      colon == SkipWs(s, key.p)
      r == IF key.ok /\ At(s, colon, ":") THEN JValue(s, colon + 1) ELSE JFail
      next == SkipWs(s, r.p)
      grown == ObjDefine(obj, key.v, r.v)
  IN IF ~r.ok THEN JFail
     ELSE IF At(s, next, ",") THEN JMembers(s, next + 1, grown)
     ELSE IF At(s, next, "}") THEN JOk(grown, next + 1)
     ELSE JFail

\* JSON.parse(data): ok is FALSE where it throws a SyntaxError
JSONparse(data) ==
  LET r == JValue(data, 1)
  IN IF r.ok /\ SkipWs(data, r.p) > Len(data) THEN r ELSE JFail

(***************************************************************************)
(* The backing file and the operations on it.  A file is absent or holds   *)
(* text; every operation loads it, transforms the loaded collection and    *)
(* writes the whole text back.                                             *)
(***************************************************************************)
AbsentFile == [exists |-> FALSE, content |-> <<>>]
TextFile(content) == [exists |-> TRUE, content |-> content]

\* read(configPath)
read(f) == IF ~f.exists THEN <<>> ELSE parse(f.content)

\* write(hosts, configPath): the file after the call
write(hosts) == TextFile(stringify(hosts))

\* what an operation returns, and the file it leaves
Failure(message, f) ==
  [file |-> f,
   result |-> [success |-> FALSE, message |-> message, host |-> Undefined, count |-> 0,
               threw |-> ""]]
Success(host, count, f) ==
  [file |-> f,
   result |-> [success |-> TRUE, message |-> "", host |-> host, count |-> count,
               threw |-> ""]]
Thrown(error, f) ==
  [file |-> f,
   result |-> [success |-> FALSE, message |-> "", host |-> Undefined, count |-> 0,
               threw |-> error]]

\* hosts.findIndex(h => h.name === name), 0 for -1
findIndex(hosts, name) ==
  LET at == {i \in 1..Len(hosts) : GetName(hosts[i]) = Str(name)}
  IN IF at = {} THEN 0 ELSE Min(at)

\* if (options.a || options.b) { host.key = options.a || options.b }
SetField(host, options, a, b, key) ==
  LET v == Or(ObjGet(options, a), ObjGet(options, b))
  IN IF Truthy(v) THEN ObjSet(host, key, v) ELSE host

\* SetPort without the String() coercion
SetPortRaw(host, options) ==
  LET v == Or(ObjGet(options, kPortOpt), ObjGet(options, kPort))
  IN IF Truthy(v) THEN ObjSet(host, kPort, v) ELSE host

\* if (options.port || options.Port) { host.Port = String(options.port || options.Port) }
SetPort(host, options) ==
  LET v == Or(ObjGet(options, kPortOpt), ObjGet(options, kPort))
  IN IF Truthy(v) THEN ObjSet(host, kPort, Str(ToStr(v))) ELSE host

\* the four assignments, in the order of the source
SetFields(host, options) ==
  SetField(SetPort(SetField(SetField(host, options, kHost, kHostName, kHostName),
                            options, kUserOpt, kUser, kUser),
                   options),
           options, kIdentity, kIdentityFile, kIdentityFile)

\* addHost(name, options, configPath)
addHost(name, options, f) ==
  LET hosts == read(f)
      host == SetFields(Obj(<<[k |-> kName, v |-> Str(name)]>>), options)
  IN IF findIndex(hosts, name) # 0
     THEN Failure("Host already exists: ", f)
     ELSE Success(host, 0, write(Append(hosts, host)))

\* editHost building the record anew from the options instead of updating it
editHostRebuild(name, options, f) ==
  LET hosts == read(f)
      i == findIndex(hosts, name)
      host == SetFields(Obj(<<[k |-> kName, v |-> Str(name)]>>), options)
  IN IF i = 0
     THEN Failure("Host not found: ", f)
     ELSE Success(host, 0, write([hosts EXCEPT ![i] = host]))

\* editHost(name, options, configPath)
editHost(name, options, f) ==
  LET hosts == read(f)
      i == findIndex(hosts, name)
      host == SetFields(hosts[i], options)
  IN IF i = 0
     THEN Failure("Host not found: ", f)
     ELSE Success(host, 0, write([hosts EXCEPT ![i] = host]))

\* hosts.splice(index, 1)
splice(hosts, index) == SubSeq(hosts, 1, index - 1) \o SubSeq(hosts, index + 1, Len(hosts))

\* removeHost(name, configPath)
removeHost(name, f) ==
  LET hosts == read(f)
      index == findIndex(hosts, name)
  IN IF index = 0
     THEN Failure("Host not found: ", f)
     ELSE Success(Undefined, 0, write(splice(hosts, index)))

\* getHost(name, configPath)
getHost(name, f) ==
  LET hosts == read(f)
      i == findIndex(hosts, name)
  IN IF i = 0 THEN Null ELSE hosts[i]

\* listHosts(configPath)
listHosts(f) == LET hosts == read(f) IN [i \in 1..Len(hosts) |-> GetName(hosts[i])]

\* the new record without the spread of the source
nameOnly(source, to) == Obj(<<[k |-> kName, v |-> Str(to)]>>)

\* { ...source, name: to }
spreadWithName(source, to) == ObjDefine(Obj(source.e), kName, Str(to))

\* copyHost without the check of the destination name
copyHostUnchecked(from, to, f) ==
  LET hosts == read(f)
      source == findIndex(hosts, from)
      newHost == ObjDefine(Obj(hosts[source].e), kName, Str(to))
  IN IF source = 0
     THEN Failure("Host not found: ", f)
     ELSE Success(newHost, 0, write(Append(hosts, newHost)))

\* copyHost(from, to, configPath)
copyHost(from, to, f) ==
  LET hosts == read(f)
      source == findIndex(hosts, from)
      newHost == spreadWithName(hosts[source], to)
  IN IF source = 0
     THEN Failure("Host not found: ", f)
     ELSE IF findIndex(hosts, to) # 0
     THEN Failure("Host already exists: ", f)
     ELSE Success(newHost, 0, write(Append(hosts, newHost)))

\* the yaml branch of exportConfig
RECURSIVE yamlText(_, _)
yamlText(hosts, i) ==
  IF i > Len(hosts) THEN <<>>
  ELSE LET opts == Options(hosts[i])
       IN ToStr(GetName(hosts[i])) \o <<":", "\n">>
          \o join([j \in 1..Len(opts) |->
                     <<" ", " ">> \o opts[j].k \o <<":", " ">> \o ToStr(opts[j].v) \o <<"\n">>],
                  <<>>)
          \o yamlText(hosts, i + 1)

\* exportConfig(format, configPath)
exportConfig(format, f) ==
  LET hosts == read(f)
  IN IF format = "json" THEN JSONstringify(hosts)
     ELSE IF format = "yaml" THEN yamlText(hosts, 1)
     ELSE stringify(hosts)

\* importConfig appending to the loaded collection instead of replacing it
importConfigMerge(data, f) ==
  LET r == JSONparse(data)
      hosts == r.v
  IN IF ~r.ok
     THEN Failure("Invalid JSON", f)
     ELSE IF hosts.t # "arr"
     THEN Failure("Expected array of hosts", f)
     ELSE IF Throws(hosts.a)
     THEN Thrown("TypeError", f)
     ELSE Success(Undefined, Len(hosts.a), write(read(f) \o hosts.a))

\* importConfig(data, configPath)
importConfig(data, f) ==
  LET r == JSONparse(data)
      hosts == r.v
  IN IF ~r.ok
     THEN Failure("Invalid JSON", f)
     ELSE IF hosts.t # "arr"
     THEN Failure("Expected array of hosts", f)
     ELSE IF Throws(hosts.a)
     THEN Thrown("TypeError", f)
     ELSE Success(Undefined, Len(hosts.a), write(hosts.a))

(***************************************************************************)
(* Inputs.                                                                 *)
(***************************************************************************)
NameInputs == {<<"a">>, <<"b", " ", "c">>}

Prop(k, v) == [k |-> k, v |-> v]

\* option objects as the command line and the tests build them
OptionInputs ==
  { Obj(<<>>),
    Obj(<<Prop(kPortOpt, Num(22))>>),
    Obj(<<Prop(kHost, Str(<<>>)), Prop(kHostName, Str(<<"y">>)),
          Prop(kUserOpt, Str(<<"u">>)), Prop(<<"j">>, Str(<<"z">>))>>) }

\* texts handed to importConfig
ImportInputs ==
  { <<"n","o","t"," ","j","s","o","n">>,
    <<"{","\"","a","\"",":","1","}">>,
    <<"[","]">>,
    <<"[","1","]">>,
    <<"[","n","u","l","l","]">>,
    <<"[","{","\"","a","\"",":","1","}","]">>,
    <<"[","{","\"","n","a","m","e","\"",":","\"","a","\"","}",",",
      "{","\"","n","a","m","e","\"",":","\"","a","\"",",","\"","U","s","e","r","\"",":","\"","r","\"","}","]">>,
    <<"[","{","\"","n","a","m","e","\"",":","\"","b"," ","c","\"",",",
      "\"","P","o","r","t","\"",":","\"","7","\"","}","]">> }

\* lines of a configuration file as an editor leaves them
LineInputs ==
  { <<"H","o","s","t"," ","a">>,
    <<"h","o","s","t"," "," ","b"," ","c"," ">>,
    <<" "," ","U","s","e","r"," ","u">>,
    <<"U","s","e","r","\t","v","\r">>,
    <<"#"," ","c">>,
    <<>>,
    <<"1"," ","x">>,
    <<"n","a","m","e"," ","z">>,
    <<"a","-","b"," ","c">>,
    <<"H","O","S","T","\t","#","x">>,
    <<"P","o","r","t">>,
    <<"_","_","p","r","o","t","o","_","_"," ","p">> }

\* the texts of at most n lines
TextsOf(n) ==
  {<<>>} \cup {join(ls, <<"\n">>) : ls \in UNION {[1..k -> LineInputs] : k \in 1..n}}

ParseInputs == TextsOf(MaxLines)

(***************************************************************************)
(* The state machine.  file is the backing file; call is the invocation    *)
(* that has just run: its operation, its arguments, the file it found and  *)
(* what it returned, until the caller takes the result (Return); clip is   *)
(* the text a caller holds from an earlier export.  Invocations are        *)
(* synchronous: one runs at a time.  race holds the invocations of two     *)
(* processes on the same file, where they are considered.                  *)
(***************************************************************************)
Call(op, name, to, options, data, value, result) ==
  [op |-> op, name |-> name, to |-> to, options |-> options, data |-> data,
   pre |-> file, value |-> value, result |-> result]

NoResult == [success |-> FALSE, message |-> "", host |-> Undefined, count |-> 0, threw |-> ""]
NoCall == [op |-> "none", name |-> <<>>, to |-> <<>>, options |-> Obj(<<>>), data |-> <<>>,
           pre |-> AbsentFile, value |-> Undefined, result |-> NoResult]
NoRace == [inv |-> <<>>, log |-> <<>>]
NoClip == [held |-> FALSE, format |-> "", text |-> <<>>, from |-> AbsentFile]

Init ==
  /\ file \in {AbsentFile, TextFile(<<>>)}
  /\ call = NoCall
  /\ clip = NoClip
  /\ race = NoRace

AddHost(name, options) ==
  LET r == addHost(name, options, file)
  IN /\ call = NoCall
     /\ r.result.success => Len(read(file)) < MaxHosts
     /\ file' = r.file
     /\ call' = Call("add", name, <<>>, options, <<>>, Undefined, r.result)
     /\ UNCHANGED <<clip, race>>

EditHost(name, options) ==
  LET r == editHost(name, options, file)
  IN /\ call = NoCall
     /\ file' = r.file
     /\ call' = Call("edit", name, <<>>, options, <<>>, Undefined, r.result)
     /\ UNCHANGED <<clip, race>>

RemoveHost(name) ==
  LET r == removeHost(name, file)
  IN /\ call = NoCall
     /\ file' = r.file
     /\ call' = Call("remove", name, <<>>, Obj(<<>>), <<>>, Undefined, r.result)
     /\ UNCHANGED <<clip, race>>

CopyHost(from, to) ==
  LET r == copyHost(from, to, file)
  IN /\ call = NoCall
     /\ r.result.success => Len(read(file)) < MaxHosts
     /\ file' = r.file
     /\ call' = Call("copy", from, to, Obj(<<>>), <<>>, Undefined, r.result)
     /\ UNCHANGED <<clip, race>>

GetHost(name) ==
  /\ call = NoCall
  /\ call' = Call("get", name, <<>>, Obj(<<>>), <<>>, getHost(name, file), NoResult)
  /\ UNCHANGED <<file, clip, race>>

ListHosts ==
  /\ call = NoCall
  /\ call' = Call("list", <<>>, <<>>, Obj(<<>>), <<>>, Arr(listHosts(file)), NoResult)
  /\ UNCHANGED <<file, clip, race>>

ImportConfig(data) ==
  LET r == importConfig(data, file)
  IN /\ call = NoCall
     /\ file' = r.file
     /\ call' = Call("import", <<>>, <<>>, Obj(<<>>), data, Undefined, r.result)
     /\ UNCHANGED <<clip, race>>

\* the caller takes the result
Return ==
  /\ call # NoCall
  /\ call' = NoCall
  /\ UNCHANGED <<file, clip, race>>

Next ==
  \/ \E name \in NameInputs, options \in OptionInputs : AddHost(name, options)
  \/ \E name \in NameInputs, options \in OptionInputs : EditHost(name, options)
  \/ \E name \in NameInputs : RemoveHost(name)
  \/ \E from \in NameInputs, to \in NameInputs : CopyHost(from, to)
  \/ \E name \in NameInputs : GetHost(name)
  \/ ListHosts
  \/ \E data \in ImportInputs : ImportConfig(data)
  \/ Return

Spec == Init /\ [][Next]_vars

(***************************************************************************)
(* The parser and the serializer on the texts an editor can leave: a       *)
(* caller reads a file and writes back the collection it read.             *)
(***************************************************************************)
Read ==
  /\ call = NoCall
  /\ call' = Call("read", <<>>, <<>>, Obj(<<>>), <<>>, Arr(read(file)), NoResult)
  /\ UNCHANGED <<file, clip, race>>

Write ==
  /\ call.op = "read"
  /\ file' = write(call.value.a)
  /\ call' = Call("write", <<>>, <<>>, Obj(<<>>), <<>>, call.value, NoResult)
  /\ UNCHANGED <<clip, race>>

InitParse ==
  /\ file \in {TextFile(t) : t \in ParseInputs}
  /\ call = NoCall
  /\ clip = NoClip
  /\ race = NoRace

NextParse == Read \/ Write \/ Return

SpecParse == InitParse /\ [][NextParse]_vars

(***************************************************************************)
(* Export and import: a caller keeps the text of an export and hands it to *)
(* a later import, after the file has changed.                             *)
(***************************************************************************)
Text(lines) == join(lines, <<"\n">>)

XferInputs ==
  { AbsentFile,
    TextFile(Text(<< <<"H","o","s","t"," ","a">>,
                     <<" ","U","s","e","r"," ","u","\"","q","\\">>,
                     <<" ","P","o","r","t"," ","2","\t","2">> >>)),
    TextFile(Text(<< <<"H","o","s","t"," ","a">>,
                     <<"H","o","s","t"," ","a">>,
                     <<" ","U","s","e","r"," ","r">> >>)),
    TextFile(Text(<< <<"h","o","s","t"," ","b"," ","c">>,
                     <<"U","s","e","r"," ","u">>,
                     <<"1"," ","x">>,
                     <<"U","s","e","r"," ","v">> >>)) }

FormatInputs == {"json", "yaml", "text"}

ExportConfig(format) ==
  /\ call = NoCall
  /\ clip' = [held |-> TRUE, format |-> format, text |-> exportConfig(format, file),
              from |-> file]
  /\ call' = Call("export", <<>>, <<>>, Obj(<<>>), <<>>, Undefined, NoResult)
  /\ UNCHANGED <<file, race>>

InitXfer ==
  /\ file \in XferInputs
  /\ call = NoCall
  /\ clip = NoClip
  /\ race = NoRace

NextXfer ==
  \/ \E format \in FormatInputs : ExportConfig(format)
  \/ clip.held /\ ImportConfig(clip.text)
  \/ \E name \in NameInputs : RemoveHost(name)
  \/ \E from \in NameInputs, to \in NameInputs : CopyHost(from, to)
  \/ Return

SpecXfer == InitXfer /\ [][NextXfer]_vars

(***************************************************************************)
(* Two processes on the same backing file.  An invocation loads the file,  *)
(* computes the text to write from what it loaded and, unless it fails,    *)
(* writes that text over the file in a later step; nothing locks the file  *)
(* in between.  log is the order of the steps taken.                       *)
(***************************************************************************)
Procs == {1, 2}

RaceInputs ==
  { AbsentFile,
    TextFile(Text(<< <<"H","o","s","t"," ","a">>,
                     <<" "," "," "," ","P","o","r","t"," ","7">>,
                     <<>> >>)) }

Idle == [pc |-> "idle", op |-> "none", name |-> <<>>, to |-> <<>>, options |-> Obj(<<>>),
         pre |-> AbsentFile, pending |-> AbsentFile, result |-> NoResult]

\* the operation from its read to the content it hands to the write
Invoke(op, name, to, options, f) ==
  CASE op = "add" -> addHost(name, options, f)
    [] op = "edit" -> editHost(name, options, f)
    [] op = "remove" -> removeHost(name, f)
    [] op = "copy" -> copyHost(name, to, f)

\* fs.writeFileSync(filePath, content): the file after the call
writeFileSyncAppend(old, content) == TextFile(old.content \o content.content)

writeFileSync(old, content) == content

\* process p starts an invocation: it reads the file and computes its outcome
Load(p, op, name, to, options) ==
  LET r == Invoke(op, name, to, options, file)
  IN /\ race.inv[p].pc = "idle"
     /\ race' = [inv |-> [race.inv EXCEPT ![p] =
                            [pc |-> IF r.result.success THEN "loaded" ELSE "done",
                             op |-> op, name |-> name, to |-> to, options |-> options,
                             pre |-> file, pending |-> r.file, result |-> r.result]],
                 log |-> Append(race.log, <<p, "load">>)]
     /\ UNCHANGED <<file, call, clip>>

\* process p writes what it computed over the file
Persist(p) ==
  /\ race.inv[p].pc = "loaded"
  /\ file' = writeFileSync(file, race.inv[p].pending)
  /\ race' = [inv |-> [race.inv EXCEPT ![p].pc = "done"],
              log |-> Append(race.log, <<p, "persist">>)]
  /\ UNCHANGED <<call, clip>>

InitRace ==
  /\ file \in RaceInputs
  /\ call = NoCall
  /\ clip = NoClip
  /\ race = [inv |-> [p \in Procs |-> Idle], log |-> <<>>]

NextRace ==
  \/ \E p \in Procs, op \in {"add", "edit"}, name \in NameInputs, options \in OptionInputs :
       Load(p, op, name, name, options)
  \/ \E p \in Procs, name \in NameInputs : Load(p, "remove", name, name, Obj(<<>>))
  \/ \E p \in Procs, name \in NameInputs, to \in NameInputs :
       Load(p, "copy", name, to, Obj(<<>>))
  \/ \E p \in Procs : Persist(p)

SpecRace == InitRace /\ [][NextRace]_vars

(***************************************************************************)
(* Vocabulary of the properties.                                           *)
(***************************************************************************)
\* the persisted collection: what the file holds now, and what the call found
Persisted == read(file)
Before == read(call.pre)

Present(name, hosts) == \E i \in 1..Len(hosts) : GetName(hosts[i]) = Str(name)
\* the record a name denotes is the first one that carries it
FirstNamed(name, hosts) == Min({i \in 1..Len(hosts) : GetName(hosts[i]) = Str(name)})
Lookup(name, hosts) == IF Present(name, hosts) THEN hosts[FirstNamed(name, hosts)] ELSE Null
Without(hosts, i) == [j \in 1..(Len(hosts) - 1) |-> IF j < i THEN hosts[j] ELSE hosts[j + 1]]
KeysOf(entries) == [i \in 1..Len(entries) |-> entries[i].k]

Succeeded == call.result.success /\ call.result.threw = ""
DuplicateError ==
  ~call.result.success /\ call.result.threw = "" /\ call.result.message = "Host already exists: "
NotFoundError ==
  ~call.result.success /\ call.result.threw = "" /\ call.result.message = "Host not found: "
DecodeError ==
  ~call.result.success /\ call.result.threw = "" /\ call.result.message = "Invalid JSON"
ShapeError ==
  ~call.result.success /\ call.result.threw = "" /\ call.result.message = "Expected array of hosts"

\* the recognized fields: the option key, and the two names a caller may use
Recognized ==
  { [key |-> kHostName, a |-> kHost, b |-> kHostName],
    [key |-> kUser, a |-> kUserOpt, b |-> kUser],
    [key |-> kPort, a |-> kPortOpt, b |-> kPort],
    [key |-> kIdentityFile, a |-> kIdentity, b |-> kIdentityFile] }

\* a field is supplied when the caller gives it a value: a non-empty text or a
\* positive number
IsValue(v) == (v.t = "str" /\ v.s # <<>>) \/ (v.t = "num" /\ v.n > 0)
SuppliedValue(options, f) ==
  IF IsValue(ObjGet(options, f.a)) THEN ObjGet(options, f.a) ELSE ObjGet(options, f.b)
Supplied(options, f) == IsValue(SuppliedValue(options, f))
AsText(v) == IF v.t = "num" THEN Str(NumToStr(v.n)) ELSE v
SuppliedKeys(options) == {f.key : f \in {g \in Recognized : Supplied(options, g)}}

(***************************************************************************)
(* Claims.                                                                 *)
(***************************************************************************)
\* C1: the collection read back from the file never holds two records with
\* the same name, whatever add, edit, remove, copy and import calls were made
\* from an absent or empty file.
C1_NamesUnique ==
  \A i, j \in 1..Len(Persisted) :
    i # j => GetName(Persisted[i]) # GetName(Persisted[j])

\* C2 as stated: add with the name present and copy with `to` present return
\* DuplicateError; edit and remove with the name absent and copy with `from`
\* absent return NotFoundError; in each case the file is untouched.
C2_FailuresAsStated ==
  /\ (call.op = "add" /\ Present(call.name, Before)) => (DuplicateError /\ file = call.pre)
  /\ (call.op = "copy" /\ Present(call.to, Before)) => (DuplicateError /\ file = call.pre)
  /\ (call.op \in {"edit", "remove"} /\ ~Present(call.name, Before))
       => (NotFoundError /\ file = call.pre)
  /\ (call.op = "copy" /\ ~Present(call.name, Before)) => (NotFoundError /\ file = call.pre)

\* C2 amended: as stated, except that copy returns DuplicateError when `to` is
\* present and `from` is present too; the absence of `from` is reported first.
C2_FailuresAtomic ==
  /\ (call.op = "add" /\ Present(call.name, Before)) => (DuplicateError /\ file = call.pre)
  /\ (call.op = "copy" /\ Present(call.name, Before) /\ Present(call.to, Before))
       => (DuplicateError /\ file = call.pre)
  /\ (call.op \in {"edit", "remove"} /\ ~Present(call.name, Before))
       => (NotFoundError /\ file = call.pre)
  /\ (call.op = "copy" /\ ~Present(call.name, Before)) => (NotFoundError /\ file = call.pre)

\* a copy onto another existing name was refused and the file was left alone
C2_Witness ==
  /\ call.op = "copy"
  /\ call.name # call.to
  /\ Present(call.name, Before)
  /\ Present(call.to, Before)
  /\ DuplicateError
  /\ file = call.pre

\* C4: edit of a present name succeeds, gives each supplied recognized field
\* its supplied value, keeps every other option of the record at its value and
\* its place, and leaves the other records and the order of records alone.
C4_PartialUpdate ==
  (call.op = "edit" /\ Present(call.name, Before)) =>
    LET i == FirstNamed(call.name, Before)
        old == Options(Before[i])
        new == IF Len(Persisted) >= i THEN Options(Persisted[i]) ELSE <<>>
        added == SuppliedKeys(call.options) \ Range(KeysOf(old))
    IN /\ Succeeded
       /\ Len(Persisted) = Len(Before)
       /\ \A j \in 1..Len(Before) : j # i => Persisted[j] = Before[j]
       /\ GetName(Persisted[i]) = GetName(Before[i])
       /\ \A f \in Recognized :
            Supplied(call.options, f) =>
              ObjGet(Persisted[i], f.key) = AsText(SuppliedValue(call.options, f))
       /\ Len(new) = Len(old) + Cardinality(added)
       /\ \A n \in 1..Len(old) :
            /\ new[n].k = old[n].k
            /\ old[n].k \notin SuppliedKeys(call.options) => new[n].v = old[n].v
       /\ \A n \in (Len(old) + 1)..Len(new) : new[n].k \in added

\* an edit changed the first of three options and left the two after it alone
C4_Witness ==
  /\ call.op = "edit"
  /\ Succeeded
  /\ Present(call.name, Before)
  /\ LET i == FirstNamed(call.name, Before)
         old == Options(Before[i])
         new == Options(Persisted[i])
     IN /\ Len(old) = 3
        /\ Len(new) = 3
        /\ old[1].k = kPort
        /\ new[1].v # old[1].v
        /\ new[2] = old[2]
        /\ new[3] = old[3]

\* C5: remove of a present name succeeds; afterwards get of that name gives
\* null and the collection is the previous one without that record.
C5_Removal ==
  (call.op = "remove" /\ Present(call.name, Before)) =>
    /\ Succeeded
    /\ getHost(call.name, file) = Null
    /\ Persisted = Without(Before, FirstNamed(call.name, Before))

\* C6: copy of a present `from` onto an absent `to` appends a record named
\* `to` with the options of `from` and leaves the existing records alone;
\* an edit of one name leaves the stored record of every other name alone.
C6_CopyIsolation ==
  /\ (call.op = "copy" /\ Present(call.name, Before) /\ ~Present(call.to, Before)) =>
       /\ Succeeded
       /\ Len(Persisted) = Len(Before) + 1
       /\ SubSeq(Persisted, 1, Len(Before)) = Before
       /\ GetName(Persisted[Len(Persisted)]) = Str(call.to)
       /\ Options(Persisted[Len(Persisted)]) = Options(Lookup(call.name, Before))
  /\ (call.op = "edit" /\ Succeeded) =>
       \A other \in NameInputs \ {call.name} :
         Lookup(other, Persisted) = Lookup(other, Before)

\* an edit changed a record that had the same options as another record, the
\* last of the collection, as a copy leaves it
C6_Witness ==
  /\ call.op = "edit"
  /\ Succeeded
  /\ Len(Before) = 2
  /\ GetName(Before[1]) # GetName(Before[2])
  /\ Options(Before[1]) # <<>>
  /\ Options(Before[1]) = Options(Before[2])
  /\ Options(Persisted[1]) # Options(Persisted[2])

\* C7: import of a text that is not valid JSON returns DecodeError, import of
\* a value that is not a sequence of objects with a name returns ShapeError,
\* and in both cases the file is untouched.
RecordShaped(v) == v.t = "obj" /\ ObjGet(v, kName).t = "str"
C7_ImportRejects ==
  (call.op = "import") =>
    LET decoded == JSONparse(call.data)
    IN /\ ~decoded.ok => (DecodeError /\ file = call.pre)
       /\ (decoded.ok /\ ~(decoded.v.t = "arr" /\ \A i \in 1..Len(decoded.v.a) :
                                                   RecordShaped(decoded.v.a[i])))
            => (ShapeError /\ file = call.pre)

\* C9: add of an absent name succeeds and returns a record of that name whose
\* options are the supplied recognized fields and nothing else; the list
\* grows by that name at its end, get returns the returned record and the
\* records that were there are unchanged.
C9_Add ==
  (call.op = "add" /\ ~Present(call.name, Before)) =>
    LET host == call.result.host
    IN /\ Succeeded
       /\ GetName(host) = Str(call.name)
       /\ Range(KeysOf(Options(host))) = SuppliedKeys(call.options)
       /\ Len(Options(host)) = Cardinality(SuppliedKeys(call.options))
       /\ \A f \in Recognized :
            Supplied(call.options, f) =>
              ObjGet(host, f.key) = AsText(SuppliedValue(call.options, f))
       /\ listHosts(file) = Append(listHosts(call.pre), Str(call.name))
       /\ getHost(call.name, file) = host
       /\ SubSeq(Persisted, 1, Len(Before)) = Before

\* a record with a port given as a number was added after an existing record
C9_Witness ==
  /\ call.op = "add"
  /\ Succeeded
  /\ Len(Before) >= 1
  /\ ObjGet(call.result.host, kPort) = Str(<<"2", "2">>)
  /\ getHost(call.name, file) = call.result.host

\* C3: for every text t, parse(stringify(parse(t))) is parse(t): the same
\* records in the same order, each with the same name and the same options
\* with the same values in the same order.
C3_RoundTrip ==
  (call.op = "write") => parse(file.content) = call.value.a

\* two records were written back, the text changed and the collection did not
C3_Witness ==
  /\ call.op = "write"
  /\ Len(call.value.a) = 2
  /\ Options(call.value.a[2]) # <<>>
  /\ file # call.pre
  /\ parse(file.content) = call.value.a

\* C8: the text of export(json) of a collection C, imported into a file that
\* holds any collection D, succeeds and leaves the file holding C.
C8_LosslessImport ==
  (call.op = "import" /\ clip.held /\ clip.format = "json" /\ call.data = clip.text) =>
    /\ Succeeded
    /\ Persisted = read(clip.from)

\* an export of two records replaced a collection that held a record of
\* another name
C8_Witness ==
  /\ call.op = "import"
  /\ clip.format = "json"
  /\ call.data = clip.text
  /\ Succeeded
  /\ Len(Persisted) = 2
  /\ \E i \in 1..Len(Before) : ~Present(GetName(Before[i]).s, Persisted)

\* the parser of the specification: records as a name and a sequence of
\* options in the order of their first occurrence
RefKeyLen(s) == Max({n \in 0..Len(s) : \A i \in 1..n : ~IsSpace(s[i])})
RefRest(s, n) == trim(SubSeq(s, n + 1, Len(s)))
RefIsHost(s) ==
  /\ RefKeyLen(s) = 4
  /\ LowerStr(SubSeq(s, 1, 4)) = kHost
  /\ RefRest(s, 4) # <<>>
RefIsOption(s) == RefKeyLen(s) >= 1 /\ RefRest(s, RefKeyLen(s)) # <<>>
RefPut(opts, k, v) ==
  IF \E i \in 1..Len(opts) : opts[i].k = k
  THEN [i \in 1..Len(opts) |-> IF opts[i].k = k THEN [k |-> k, v |-> v] ELSE opts[i]]
  ELSE Append(opts, [k |-> k, v |-> v])
RefLine(recs, line) ==
  LET s == trim(line)
      n == RefKeyLen(s)
  IN IF s = <<>> \/ s[1] = "#" THEN recs
     ELSE IF RefIsHost(s) THEN Append(recs, [name |-> RefRest(s, 4), opts |-> <<>>])
     ELSE IF recs # <<>> /\ RefIsOption(s)
     THEN [recs EXCEPT ![Len(recs)].opts = RefPut(@, SubSeq(s, 1, n), RefRest(s, n))]
     ELSE recs
RECURSIVE RefLines(_, _, _)
RefLines(recs, lines, i) ==
  IF i > Len(lines) THEN recs ELSE RefLines(RefLine(recs, lines[i]), lines, i + 1)
RefParse(text) == RefLines(<<>>, split(text, "\n"), 1)

\* a parsed collection in the terms of the specification
AsRecords(hosts) ==
  [i \in 1..Len(hosts) |->
     [name |-> ToStr(GetName(hosts[i])),
      opts |-> [j \in 1..Len(Options(hosts[i])) |->
                  [k |-> Options(hosts[i])[j].k, v |-> ToStr(Options(hosts[i])[j].v)]]]]

\* C10: parse gives what the parser of the specification gives on every
\* text: the name of a record is the remainder of its Host line whatever
\* follows, an option line is a key of non-whitespace characters and a
\* remainder, and a repeated key keeps the place of its first occurrence.
C10_ParseAsSpecified ==
  (call.op = "read") => AsRecords(call.value.a) = RefParse(call.pre.content)

\* C10, its clause on names: each Host line opens a record whose name is the
\* trimmed remainder of that line and stays that remainder whatever option
\* lines follow, and the records appear in file order.
C10_NameStays ==
  (call.op = "read") =>
    LET ref == RefParse(call.pre.content)
    IN [i \in 1..Len(call.value.a) |-> ToStr(GetName(call.value.a[i]))]
         = [i \in 1..Len(ref) |-> ref[i].name]


(***************************************************************************)
(* Vocabulary of the two-process property.                                 *)
(***************************************************************************)
StepOf(p, kind) == CHOOSE i \in 1..Len(race.log) : race.log[i] = <<p, kind>>
Wrote(p) == \E i \in 1..Len(race.log) : race.log[i] = <<p, "persist">>
BothWrote == race.inv # <<>> /\ \A p \in Procs : Wrote(p)
\* both loaded before either persisted
Interleaved ==
  \A p, q \in Procs : StepOf(p, "load") < StepOf(q, "persist")
\* one invocation ended before the other began
Sequential ==
  \E p, q \in Procs : StepOf(p, "persist") < StepOf(q, "load")
Later == CHOOSE p \in Procs : \A q \in Procs : StepOf(q, "persist") <= StepOf(p, "persist")
Earlier == CHOOSE p \in Procs : p # Later
\* the name whose record the invocation sets or removes
Target(p) == IF race.inv[p].op = "copy" THEN race.inv[p].to ELSE race.inv[p].name
SameAt(name, hosts1, hosts2) ==
  /\ Present(name, hosts1) <=> Present(name, hosts2)
  /\ Lookup(name, hosts1) = Lookup(name, hosts2)
\* the change of p: what its write made of its target's record
ChangePresent(p, hosts) == SameAt(Target(p), hosts, read(race.inv[p].pending))
Altered(p) == ~SameAt(Target(p), read(race.inv[p].pre), read(race.inv[p].pending))

\* C11 as stated: when both invocations load before either persists, the
\* file after both persists is what the later persist wrote and the earlier
\* writer's change is absent from it; when they do not interleave, both
\* changes are present.
C11_AsStated ==
  BothWrote =>
    /\ Interleaved =>
         /\ file = race.inv[Later].pending
         /\ ~ChangePresent(Earlier, Persisted)
    /\ Sequential =>
         \A p \in Procs : ChangePresent(p, Persisted)

\* C11: when both invocations load before either persists, the file after
\* both persists is exactly what the later persist wrote, and the earlier
\* writer's change is absent from it if the two invocations have different
\* target names and the earlier one altered its target's record; when they
\* do not interleave and have different target names, both changes are
\* present.
C11_LostUpdate ==
  BothWrote =>
    /\ Interleaved =>
         /\ file = race.inv[Later].pending
         /\ (Target(1) # Target(2) /\ Altered(Earlier)) => ~ChangePresent(Earlier, Persisted)
    /\ (Sequential /\ Target(1) # Target(2)) =>
         \A p \in Procs : ChangePresent(p, Persisted)

\* two interleaved successful invocations on different names, the earlier
\* of which is lost
C11_Witness ==
  /\ BothWrote
  /\ Interleaved
  /\ Target(1) # Target(2)
  /\ Altered(Earlier)
  /\ race.inv[Earlier].result.success
  /\ file = race.inv[Later].pending
  /\ ~ChangePresent(Earlier, Persisted)

====
